---- MODULE Spec2Model ----
(***************************************************************************)
(* Model of MCPDatabaseServer (src/mcp_database_server.py): the request    *)
(* pipeline receive_client_request -> _parse_request -> _check_cache ->    *)
(* _route_request -> _handle_* -> _store_in_cache -> _format_response.     *)
(* One call of receive_client_request is one atomic action; the outcomes   *)
(* of the external collaborators (redis, the database drivers) are chosen  *)
(* nondeterministically per call.                                          *)
(***************************************************************************)
EXTENDS Integers, Sequences, FiniteSets, TLC

VARIABLES config, redis_client, cache, openConns, last

vars == <<config, redis_client, cache, openConns, last>>

\* ---------------------------------------------------------------- bounds
MaxRows == 1      \* longest row/document sequence a backend returns
MaxOpen == 1      \* most connections left unreleased at any time

\* ------------------------------------------------------- Python values
\* A Python value is a record [t, s]: its type tag and, for a str, its
\* characters.  Absent marks a key missing from the request mapping.
Str(cs) == [t |-> "str", s |-> cs]
PyNone == [t |-> "none", s |-> << >>]
PyInt == [t |-> "int", s |-> << >>]
Absent == [t |-> "absent", s |-> << >>]
EmptyDict == [t |-> "dict", s |-> << >>]

\* dict.get(key, default)
Get(v, default) == IF v.t = "absent" THEN default ELSE v

\* truth value of an optional string (cache_key)
Truthy(v) == v.t = "int" \/ (v.t \in {"str", "dict"} /\ Len(v.s) > 0)

LowerChar(c) ==
  CASE c = "S" -> "s" [] c = "E" -> "e" [] c = "L" -> "l" [] c = "C" -> "c"
    [] c = "T" -> "t" [] c = "F" -> "f" [] c = "I" -> "i" [] c = "N" -> "n"
    [] c = "D" -> "d" [] c = "Q" -> "q" [] OTHER -> c

\* str.lower()
StrLower(cs) == [i \in 1..Len(cs) |-> LowerChar(cs[i])]

\* str.startswith(prefix)
StartsWith(cs, p) == Len(cs) >= Len(p) /\ SubSeq(cs, 1, Len(p)) = p

S_select == <<"s","e","l","e","c","t">>
S_find == <<"f","i","n","d">>
S_insert == <<"i","n","s","e","r","t">>
S_update == <<"u","p","d","a","t","e">>
S_delete == <<"d","e","l","e","t","e">>
S_sqlite == <<"s","q","l","i","t","e">>
S_postgresql == <<"p","o","s","t","g","r","e","s","q","l">>
S_mysql == <<"m","y","s","q","l">>
S_mongodb == <<"m","o","n","g","o","d","b">>

Backends == {"sqlite", "postgresql", "mysql", "mongodb"}

\* ------------------------------------------------------------- results
\* A handler result: kind "rows" (a list of row/document values) or
\* "summary" (a non-empty dict such as {"affected_rows": n}); "null" is None.
\* A row value is JSON-native (t = "str") or a driver-native object
\* (t = "obj": datetime, bytes, Decimal, ObjectId) whose str() is s.
Values == {[t |-> "str", s |-> "a"], [t |-> "obj", s |-> "a"]}

RowSeqs == UNION {[1..n -> Values] : n \in 0..MaxRows}

NullData == [kind |-> "null", items |-> << >>, n |-> 0]
Rows(items) == [kind |-> "rows", items |-> items, n |-> 0]
Summary(n) == [kind |-> "summary", items |-> << >>, n |-> n]

\* Python truth value of a result: None and [] are falsy, a summary dict
\* always has keys.
TruthyData(d) == d.kind = "summary" \/ (d.kind = "rows" /\ Len(d.items) > 0)

\* str(x), as json.dumps(default=str) and the ObjectId conversion apply it
PyStr(v) == [t |-> "str", s |-> v.s]

\* json.dumps(data, default=str): values json cannot encode become strings
JsonDumps(data) ==
  [json |-> [kind |-> data.kind,
             items |-> [i \in 1..Len(data.items) |->
                          IF data.items[i].t = "obj" THEN PyStr(data.items[i])
                          ELSE data.items[i]],
             n |-> data.n]]

\* json.loads(text)
JsonLoads(text) == text.json

\* ----------------------------------------------------------- exceptions
Exc(kind, text, arg) == [kind |-> kind, text |-> text, arg |-> arg]
NoExc == Exc("none", "", << >>)

\* str(e)
ExcStr(e) == [text |-> e.text, arg |-> e.arg]

\* ------------------------------------------------------------ envelopes
FormatResponse(data, from_cache) ==
  [status |-> "success", data |-> data, from_cache |-> from_cache,
   timestamp |-> "mtime"]

\* variant: the error envelope also carries a data field
FormatErrorResponseWithData(error_message) ==
  [status |-> "error", error |-> error_message, data |-> NullData,
   timestamp |-> "mtime"]

FormatErrorResponse(error_message) ==
  [status |-> "error", error |-> error_message, timestamp |-> "mtime"]

\* ------------------------------------------------------------- parsing
Request(db_type, operation, query, parameters, cache_key) ==
  [db_type |-> db_type, operation |-> operation, query |-> query,
   parameters |-> parameters, cache_key |-> cache_key]

NoRequest == Request(<< >>, Str(<< >>), PyNone, EmptyDict, PyNone)

\* _parse_request: request_data.get(...) needs a mapping and
\* .get('db_type', '').lower() needs a str; the other fields are taken as is.
ParseRequest(request_data) ==
  IF request_data.t # "dict"
  THEN [raised |-> TRUE, request |-> NoRequest,
        exc |-> Exc("AttributeError", "object has no attribute 'get'", << >>)]
  ELSE IF Get(request_data.db_type, Str(<< >>)).t # "str"
  THEN [raised |-> TRUE, request |-> NoRequest,
        exc |-> Exc("AttributeError", "object has no attribute 'lower'", << >>)]
  ELSE [raised |-> FALSE, exc |-> NoExc,
        request |-> Request(StrLower(Get(request_data.db_type, Str(<< >>)).s),
                            Get(request_data.operation, Str(<< >>)),
                            Get(request_data.query, PyNone),
                            Get(request_data.parameters, EmptyDict),
                            Get(request_data.cache_key, PyNone))]

\* --------------------------------------------------------------- cache
\* _check_cache: None unless the client exists, the GET succeeds and the
\* stored text is non-empty; a failing GET is logged and gives None.
CheckCache(cache_key, lookupOk) ==
  IF ~redis_client THEN NullData
  ELSE IF ~lookupOk THEN NullData
  ELSE IF cache_key \in DOMAIN cache THEN JsonLoads(cache[cache_key])
  ELSE NullData

\* variant: the failing SETEX is not caught
StoreInCacheRaising(cache_key, data, storeOk) ==
  IF ~redis_client THEN [raised |-> FALSE, exc |-> NoExc, cache |-> cache]
  ELSE IF ~storeOk
  THEN [raised |-> TRUE, cache |-> cache,
        exc |-> Exc("ConnectionError", "Error connecting to redis", << >>)]
  ELSE [raised |-> FALSE, exc |-> NoExc,
        cache |-> [k \in DOMAIN cache \cup {cache_key} |->
                     IF k = cache_key THEN JsonDumps(data) ELSE cache[k]]]

\* _store_in_cache: SETEX key ttl json.dumps(data, default=str); a failing
\* SETEX is logged and swallowed.  The result is the store afterwards.
StoreInCache(cache_key, data, storeOk) ==
  IF ~redis_client THEN [raised |-> FALSE, exc |-> NoExc, cache |-> cache]
  ELSE IF ~storeOk THEN [raised |-> FALSE, exc |-> NoExc, cache |-> cache]
  ELSE [raised |-> FALSE, exc |-> NoExc,
        cache |-> [k \in DOMAIN cache \cup {cache_key} |->
                     IF k = cache_key THEN JsonDumps(data) ELSE cache[k]]]

\* ------------------------------------------------------------ handlers
\* The outcome of one handler call: what it returned or raised, how it
\* classified the request, and the connections it opened and closed.
HOk(result, class, opened, closed) ==
  [raised |-> FALSE, exc |-> NoExc, result |-> result, class |-> class,
   opened |-> opened, closed |-> closed, driverFailed |-> FALSE]

HRaise(exc, opened, closed) ==
  [raised |-> TRUE, exc |-> exc, result |-> NullData, class |-> "none",
   opened |-> opened, closed |-> closed, driverFailed |-> FALSE]

\* the driver call itself (connect, execute, find, ...) raised
HDriverError(text, opened, closed) ==
  [raised |-> TRUE, exc |-> Exc("DriverError", text, << >>),
   result |-> NullData, class |-> "none",
   opened |-> opened, closed |-> closed, driverFailed |-> TRUE]

\* operation.lower() == 'select' or query.lower().startswith('select')
\* ("or" evaluates its right side only when the left side is false)
IsSelect(request) ==
  \/ StrLower(request.operation.s) = S_select
  \/ StartsWith(StrLower(request.query.s), S_select)

\* _handle_sqlite.  "with sqlite3.connect(...) as conn" commits or rolls
\* back on exit and does not close the connection: closed stays 0.
HandleSqlite(request, e) ==
  IF ~config.enabled["sqlite"]
  THEN HRaise(Exc("RuntimeError", "SQLite not enabled", << >>), 0, 0)
  ELSE IF ~e.connectOk
  THEN HDriverError("unable to open database file", 0, 0)
  ELSE IF request.operation.t # "str"
  THEN HRaise(Exc("AttributeError", "object has no attribute 'lower'", << >>), 1, 0)
  ELSE IF StrLower(request.operation.s) # S_select /\ request.query.t # "str"
  THEN HRaise(Exc("AttributeError", "object has no attribute 'lower'", << >>), 1, 0)
  ELSE IF request.query.t # "str"
  THEN HDriverError("execute() argument 1 must be str", 1, 0)
  ELSE IF ~e.execOk
  THEN HDriverError("query failed", 1, 0)
  ELSE IF IsSelect(request)
  THEN HOk(Rows(e.rows), "read", 1, 0)
  ELSE HOk(Summary(Len(e.rows)), "write", 1, 0)

\* the body shared by _handle_postgresql and _handle_mysql after connect():
\* cursor.execute first, then the classification, conn.close() in finally.
RelationalBody(request, e) ==
  IF request.query.t # "str"
  THEN HDriverError("argument 1 must be a string", 1, 1)
  ELSE IF ~e.execOk
  THEN HDriverError("query failed", 1, 1)
  ELSE IF request.operation.t # "str"
  THEN HRaise(Exc("AttributeError", "object has no attribute 'lower'", << >>), 1, 1)
  ELSE IF IsSelect(request)
  THEN HOk(Rows(e.rows), "read", 1, 1)
  ELSE HOk(Summary(Len(e.rows)), "write", 1, 1)

\* variant: connects without looking at the availability flags
HandlePostgresqlUnchecked(request, e) ==
  IF ~e.connectOk
  THEN HDriverError("could not connect to server", 0, 0)
  ELSE RelationalBody(request, e)

HandlePostgresql(request, e) ==
  IF ~config.POSTGRESQL_AVAILABLE \/ ~config.enabled["postgresql"]
  THEN HRaise(Exc("RuntimeError", "PostgreSQL not available or not enabled", << >>), 0, 0)
  ELSE IF ~config.RealDictCursor
  THEN HRaise(Exc("RuntimeError", "psycopg2.extras.RealDictCursor is not available", << >>), 0, 0)
  ELSE IF ~e.connectOk
  THEN HDriverError("could not connect to server", 0, 0)
  ELSE RelationalBody(request, e)

\* (MYSQL_DRIVER is 'pymysql' exactly when MYSQL_AVAILABLE, so the driver
\* branch at lines 239-252 always connects)
HandleMysql(request, e) ==
  IF ~config.MYSQL_AVAILABLE \/ ~config.enabled["mysql"]
  THEN HRaise(Exc("RuntimeError", "MySQL not available or not enabled", << >>), 0, 0)
  ELSE IF ~e.connectOk
  THEN HDriverError("could not connect to server", 0, 0)
  ELSE RelationalBody(request, e)

\* _handle_mongodb: operation is compared with == (no lower()); every
\* branch reads request.parameters.get(...); client.close() in finally.
HandleMongodb(request, e) ==
  IF ~config.MONGODB_AVAILABLE \/ ~config.enabled["mongodb"]
  THEN HRaise(Exc("RuntimeError", "MongoDB not available or not enabled", << >>), 0, 0)
  ELSE IF ~e.connectOk
  THEN HDriverError("could not create client", 0, 0)
  ELSE IF request.operation \notin {Str(S_find), Str(S_insert), Str(S_update), Str(S_delete)}
  THEN HRaise(Exc("ValueError", "Unsupported MongoDB operation: ",
                  IF request.operation.t = "str" THEN request.operation.s ELSE << >>), 1, 1)
  ELSE IF request.parameters.t # "dict"
  THEN HRaise(Exc("AttributeError", "object has no attribute 'get'", << >>), 1, 1)
  ELSE IF ~e.execOk
  THEN HDriverError("operation failed", 1, 1)
  ELSE IF request.operation = Str(S_find)
  THEN HOk(Rows([i \in 1..Len(e.rows) |-> PyStr(e.rows[i])]), "read", 1, 1)
  ELSE HOk(Summary(Len(e.rows)), "write", 1, 1)

\* ------------------------------------------------------------- routing
HandlerOf(db_type) ==
  CASE db_type = S_sqlite -> "sqlite"
    [] db_type = S_postgresql -> "postgresql"
    [] db_type = S_mysql -> "mysql"
    [] db_type = S_mongodb -> "mongodb"
    [] OTHER -> "none"

\* variant: an unknown db_type falls through to the sqlite handler
RouteRequestDefaultSqlite(request, e) ==
  CASE HandlerOf(request.db_type) = "postgresql" ->
         [handler |-> "postgresql", h |-> HandlePostgresql(request, e)]
    [] HandlerOf(request.db_type) = "mysql" ->
         [handler |-> "mysql", h |-> HandleMysql(request, e)]
    [] HandlerOf(request.db_type) = "mongodb" ->
         [handler |-> "mongodb", h |-> HandleMongodb(request, e)]
    [] OTHER ->
         [handler |-> "sqlite", h |-> HandleSqlite(request, e)]

\* _route_request: the outcome of the selected handler, with the handler's
\* name; an unknown db_type raises ValueError and no handler runs.
RouteRequest(request, e) ==
  CASE HandlerOf(request.db_type) = "sqlite" ->
         [handler |-> "sqlite", h |-> HandleSqlite(request, e)]
    [] HandlerOf(request.db_type) = "postgresql" ->
         [handler |-> "postgresql", h |-> HandlePostgresql(request, e)]
    [] HandlerOf(request.db_type) = "mysql" ->
         [handler |-> "mysql", h |-> HandleMysql(request, e)]
    [] HandlerOf(request.db_type) = "mongodb" ->
         [handler |-> "mongodb", h |-> HandleMongodb(request, e)]
    [] OTHER ->
         [handler |-> "none",
          h |-> HRaise(Exc("ValueError", "Unsupported database type: ",
                           request.db_type), 0, 0)]

\* ------------------------------------------------------------ pipeline
NoResponse == [status |-> "none"]

\* what one call did, besides its response
Trace(resp, raised, fail, exc, handler, h, invocations, lookupTried, lookupFailed, entryBefore, cacheHit, storeTried, storeFailed) ==
  [resp |-> resp, raised |-> raised, fail |-> fail, exc |-> exc,
   handler |-> handler, invocations |-> invocations,
   opened |-> h.opened, closed |-> h.closed, class |-> h.class,
   driverFailed |-> h.driverFailed, result |-> h.result,
   lookupTried |-> lookupTried, lookupFailed |-> lookupFailed,
   entryBefore |-> entryBefore, cacheHit |-> cacheHit,
   storeTried |-> storeTried, storeFailed |-> storeFailed]

NoHandler == HOk(NullData, "none", 0, 0)

\* variant: "except (ValueError, RuntimeError) as e", anything else escapes
CatchOnlyValueAndRuntimeErrors(exc) ==
  IF exc.kind \in {"ValueError", "RuntimeError"}
  THEN [raised |-> FALSE, resp |-> FormatErrorResponse(ExcStr(exc))]
  ELSE [raised |-> TRUE, resp |-> NoResponse]

\* "except Exception as e: return self._format_error_response(str(e))"
CatchAll(exc) ==
  [raised |-> FALSE, resp |-> FormatErrorResponse(ExcStr(exc))]

\* "if request.cache_key and self.redis_client"
UseCache(request) == Truthy(request.cache_key) /\ redis_client

\* variant: a write result empties the cache instead of being stored
CacheAfterInvalidating(request, result, storeOk) ==
  IF result.kind = "summary"
  THEN [raised |-> FALSE, exc |-> NoExc, cache |-> << >>]
  ELSE IF UseCache(request) /\ TruthyData(result)
  THEN StoreInCache(request.cache_key.s, result, storeOk)
  ELSE [raised |-> FALSE, exc |-> NoExc, cache |-> cache]

\* "if request.cache_key and self.redis_client and result:
\*      self._store_in_cache(request.cache_key, result)"
CacheAfter(request, result, storeOk) ==
  IF UseCache(request) /\ TruthyData(result)
  THEN StoreInCache(request.cache_key.s, result, storeOk)
  ELSE [raised |-> FALSE, exc |-> NoExc, cache |-> cache]

\* lines 145-153: route, store, format
RouteAndStore(request, e) ==
  LET r == RouteRequest(request, e)
      lookupTried == UseCache(request)
      lookupFailed == UseCache(request) /\ ~e.lookupOk
      entryBefore == UseCache(request) /\ request.cache_key.s \in DOMAIN cache
      invocations == IF r.handler = "none" THEN 0 ELSE 1
      st == CacheAfter(request, r.h.result, e.storeOk)
      storeTried == UseCache(request) /\ TruthyData(r.h.result)
  IN IF r.h.raised
     THEN [cache |-> cache,
           trace |-> Trace(CatchAll(r.h.exc).resp, CatchAll(r.h.exc).raised,
                           IF r.handler = "none" THEN "route" ELSE "handler",
                           r.h.exc, r.handler, r.h, invocations,
                           lookupTried, lookupFailed, entryBefore, FALSE,
                           FALSE, FALSE)]
     ELSE IF st.raised
     THEN [cache |-> cache,
           trace |-> Trace(CatchAll(st.exc).resp, CatchAll(st.exc).raised,
                           "store", st.exc, r.handler, r.h, invocations,
                           lookupTried, lookupFailed, entryBefore, FALSE,
                           storeTried, TRUE)]
     ELSE [cache |-> st.cache,
           trace |-> Trace(FormatResponse(r.h.result, FALSE), FALSE,
                           "none", NoExc, r.handler, r.h, invocations,
                           lookupTried, lookupFailed, entryBefore, FALSE,
                           storeTried, storeTried /\ ~e.storeOk)]

\* variant: the hit is logged but the pipeline goes on to the backend
OnCacheHitFallThrough(request, cached_result, e) ==
  RouteAndStore(request, e)

\* lines 141-143: a truthy cached result is returned at once
OnCacheHit(request, cached_result, e) ==
  [cache |-> cache,
   trace |-> Trace(FormatResponse(cached_result, TRUE), FALSE, "none", NoExc,
                   "none", NoHandler, 0, TRUE, FALSE, TRUE, TRUE, FALSE, FALSE)]

\* receive_client_request, lines 133-157
Receive(request_data, e) ==
  LET p == ParseRequest(request_data)
      request == p.request
      cached_result == IF UseCache(request)
                       THEN CheckCache(request.cache_key.s, e.lookupOk)
                       ELSE NullData
  IN IF p.raised
     THEN [cache |-> cache,
           trace |-> Trace(CatchAll(p.exc).resp, CatchAll(p.exc).raised,
                           "parse", p.exc, "none", NoHandler, 0,
                           FALSE, FALSE, FALSE, FALSE, FALSE, FALSE)]
     ELSE IF UseCache(request) /\ TruthyData(cached_result)
     THEN OnCacheHit(request, cached_result, e)
     ELSE RouteAndStore(request, e)

\* -------------------------------------------------------------- inputs
S_SQLite == <<"S","Q","L","i","t","e">>
S_oracle == <<"o","r","a","c","l","e">>
S_SELECT == <<"S","E","L","E","C","T">>
S_FIND == <<"F","I","N","D">>
S_k1 == <<"k","1">>
Q_Select == <<"S","e","l","e","c","t"," ","1">>
Q_insert == <<"i","n","s","e","r","t"," ","1">>

CacheKeys == {S_k1}

DbTypeInputs ==
  {Str(S_SQLite), Str(S_postgresql), Str(S_mysql), Str(S_mongodb),
   Str(S_oracle), PyInt}
OperationInputs ==
  {Str(S_select), Str(S_SELECT), Str(S_insert), Str(S_find), Str(S_FIND)}
QueryInputs == {Str(Q_Select), Str(Q_insert), Absent}
CacheKeyInputs == {Str(k) : k \in CacheKeys} \cup {Absent}

RequestData(t, db_type, operation, query, parameters, cache_key) ==
  [t |-> t, db_type |-> db_type, operation |-> operation, query |-> query,
   parameters |-> parameters, cache_key |-> cache_key]

\* a request that is not a mapping (None)
NotAMapping == RequestData("none", Absent, Absent, Absent, Absent, Absent)

RequestInputs ==
  {NotAMapping} \cup
  {RequestData("dict", d, o, q, Absent, k) :
     d \in DbTypeInputs, o \in OperationInputs, q \in QueryInputs,
     k \in CacheKeyInputs} \cup
  {RequestData("dict", Str(S_mongodb), Str(S_find), Absent, PyNone, k) :
     k \in CacheKeyInputs}

\* what redis and the database driver do during one call: whether GET and
\* SETEX succeed, whether connecting and executing succeed, and the rows
\* the statement yields or touches
EnvInputs ==
  [lookupOk : BOOLEAN, storeOk : BOOLEAN, connectOk : BOOLEAN,
   execOk : BOOLEAN, rows : RowSeqs]

\* the configurations: all backends enabled, all disabled, the default
\* configuration of an environment without the client libraries (enabled
\* follows *_AVAILABLE), a configuration that enables backends whose
\* libraries are missing, and psycopg2 present without psycopg2.extras
Config(enabled, lib) ==
  [enabled |-> enabled, POSTGRESQL_AVAILABLE |-> lib # "missing",
   RealDictCursor |-> lib = "present", MYSQL_AVAILABLE |-> lib # "missing",
   MONGODB_AVAILABLE |-> lib # "missing"]

ConfigInputs ==
  {Config([b \in Backends |-> TRUE], "present"),
   Config([b \in Backends |-> FALSE], "present"),
   Config([b \in Backends |-> b = "sqlite"], "missing"),
   Config([b \in Backends |-> TRUE], "missing"),
   Config([b \in Backends |-> TRUE], "noextras")}

\* ------------------------------------------------------- initial state
\* no call has returned a response that is still held by the caller
NoCall ==
  [called |-> FALSE, request_data |-> NotAMapping, request |-> NoRequest,
   run |-> Trace(NoResponse, FALSE, "none", NoExc, "none", NoHandler, 0,
                 FALSE, FALSE, FALSE, FALSE, FALSE, FALSE)]

\* __init__: the configuration is kept; redis_client is set only when redis
\* is importable, enabled and answers the ping.
Init ==
  /\ config \in ConfigInputs
  /\ redis_client \in BOOLEAN
  /\ cache = << >>
  /\ openConns = [b \in Backends |-> 0]
  /\ last = NoCall

\* ------------------------------------------------------------- actions
\* connections a call opened and did not close
Unreleased(run) == run.opened - run.closed

\* one call of receive_client_request, from entry to return
ReceiveClientRequest(request_data, e) ==
  /\ ~last.called
  /\ last' = [called |-> TRUE, request_data |-> request_data,
              request |-> ParseRequest(request_data).request,
              run |-> Receive(request_data, e).trace]
  /\ \A b \in Backends : openConns[b] + Unreleased(last'.run) <= MaxOpen
  /\ cache' = Receive(request_data, e).cache
  /\ openConns' = [b \in Backends |->
                     IF b = last'.run.handler
                     THEN openConns[b] + Unreleased(last'.run)
                     ELSE openConns[b]]
  /\ UNCHANGED <<config, redis_client>>

\* the caller takes the response; request and response are not kept
Discard ==
  /\ last.called
  /\ last' = NoCall
  /\ UNCHANGED <<config, redis_client, cache, openConns>>

\* redis drops an entry when the TTL given to SETEX runs out
Expire(k) ==
  /\ ~last.called
  /\ k \in DOMAIN cache
  /\ cache' = [x \in DOMAIN cache \ {k} |-> cache[x]]
  /\ UNCHANGED <<config, redis_client, openConns, last>>

\* the interpreter finalizes a connection object nobody refers to, which
\* closes it
Finalize(b) ==
  /\ ~last.called
  /\ openConns[b] > 0
  /\ openConns' = [openConns EXCEPT ![b] = @ - 1]
  /\ UNCHANGED <<config, redis_client, cache, last>>

\* a caller issues some request while redis and the drivers behave somehow
Call ==
  /\ ~last.called
  /\ \E request_data \in RequestInputs, e \in EnvInputs :
       ReceiveClientRequest(request_data, e)

ExpireSome == \E k \in CacheKeys : Expire(k)

FinalizeSome == \E b \in Backends : Finalize(b)

Next ==
  \/ Call
  \/ Discard
  \/ ExpireSome
  \/ FinalizeSome

Spec == Init /\ [][Next]_vars

TypeOK ==
  /\ redis_client \in BOOLEAN
  /\ DOMAIN cache \subseteq CacheKeys
  /\ \A b \in Backends : openConns[b] \in 0..MaxOpen

\* ============================================================ properties
\* the fields of the last request as _parse_request produced them
LastParsed == last.called /\ last.run.fail # "parse"
LastKey == last.request.cache_key
LastOperation == last.request.operation
LastQuery == last.request.query
LastDbType == last.request.db_type

\* a step in which receive_client_request runs from entry to return
CallStep == ~last.called /\ last'.called

\* C1: every call returns an envelope and never lets an exception escape,
\* wherever the failure happens; when parsing, routing or the handler fails
\* the envelope has status "error" and carries the failure's message.
C1_NeverRaises ==
  last.called =>
    /\ ~last.run.raised
    /\ last.run.resp.status \in {"success", "error"}
    /\ last.run.fail \in {"parse", "route", "handler"} =>
         /\ last.run.resp.status = "error"
         /\ last.run.resp.error = ExcStr(last.run.exc)
         /\ last.run.resp.error.text # ""

\* a handler failed in a call whose cache lookup failed as well
C1_Witness ==
  /\ last.called
  /\ last.run.fail = "handler"
  /\ last.run.lookupFailed
  /\ last.run.resp.status = "error"

\* C2 (as claimed): after a read with a cache_key was answered from the
\* backend with a reachable cache that held no entry for the key, the
\* identical request issued again is answered from_cache:true with the same
\* data, whatever rows the backend returned.
C2_RepeatedReadIsCached ==
  ( /\ last.called
    /\ Truthy(LastKey) /\ redis_client
    /\ last.run.class = "read" /\ last.run.resp.status = "success"
    /\ ~last.run.entryBefore
    /\ ~last.run.lookupFailed /\ ~last.run.storeFailed )
  => \A e \in EnvInputs :
       (e.lookupOk /\ e.storeOk) =>
         /\ last.run.resp.from_cache = FALSE
         /\ Receive(last.request_data, e).trace.resp.status = "success"
         /\ Receive(last.request_data, e).trace.resp.from_cache = TRUE
         /\ Receive(last.request_data, e).trace.resp.data = last.run.resp.data

UnsupportedText == "Unsupported database type: "

\* C3 (as claimed): a request with an unsupported db_type gets status
\* "error" naming the type, whatever its cache_key and the cache contents,
\* and no handler runs.
C3_UnsupportedAlwaysError ==
  (LastParsed /\ HandlerOf(LastDbType) = "none") =>
    /\ last.run.invocations = 0
    /\ last.run.resp.status = "error"
    /\ last.run.resp.error = [text |-> UnsupportedText, arg |-> LastDbType]

\* C3 (amended): a request with an unsupported db_type never reaches a
\* handler; it gets status "error" naming the type unless its cache lookup
\* hits, and then it gets the cached value with from_cache:true.
C3_UnsupportedErrorUnlessHit ==
  [][ (CallStep /\ LastParsed' /\ HandlerOf(LastDbType') = "none") =>
        /\ last'.run.invocations = 0
        /\ IF /\ Truthy(LastKey') /\ redis_client
              /\ ~last'.run.lookupFailed
              /\ LastKey'.s \in DOMAIN cache
              /\ TruthyData(JsonLoads(cache[LastKey'.s]))
           THEN /\ last'.run.resp.status = "success"
                /\ last'.run.resp.from_cache = TRUE
                /\ last'.run.resp.data = JsonLoads(cache[LastKey'.s])
           ELSE /\ last'.run.resp.status = "error"
                /\ last'.run.resp.error =
                     [text |-> UnsupportedText, arg |-> LastDbType'] ]_vars

\* an unsupported db_type was refused after a cache miss
C3_Witness ==
  /\ LastParsed /\ HandlerOf(LastDbType) = "none"
  /\ last.run.lookupTried /\ ~last.run.lookupFailed
  /\ last.run.resp.status = "error"
  /\ last.run.resp.error.arg = S_oracle

\* the backend is disabled in the configuration or its client library
\* (or, for postgresql, psycopg2.extras) is missing
Unavailable(b) ==
  \/ ~config.enabled[b]
  \/ b = "postgresql" /\ (~config.POSTGRESQL_AVAILABLE \/ ~config.RealDictCursor)
  \/ b = "mysql" /\ ~config.MYSQL_AVAILABLE
  \/ b = "mongodb" /\ ~config.MONGODB_AVAILABLE

UnavailableTexts ==
  {"SQLite not enabled", "PostgreSQL not available or not enabled",
   "psycopg2.extras.RealDictCursor is not available",
   "MySQL not available or not enabled",
   "MongoDB not available or not enabled"}

\* C4 (as claimed): a request for a supported but disabled or absent
\* backend gets status "error" saying the backend is unavailable, whatever
\* its cache_key and the cache contents; nothing is raised, no connection
\* is opened.
C4_UnavailableAlwaysError ==
  ( /\ LastParsed
    /\ \E b \in Backends : b = HandlerOf(LastDbType) /\ Unavailable(b) ) =>
    /\ ~last.run.raised
    /\ last.run.opened = 0
    /\ last.run.resp.status = "error"
    /\ last.run.resp.error.text \in UnavailableTexts

\* C4 (amended): such a request never raises and never opens a connection;
\* it gets status "error" saying the backend is unavailable unless its
\* cache lookup hits, and then it gets the cached value with from_cache:true.
C4_UnavailableErrorUnlessHit ==
  [][ ( /\ CallStep /\ LastParsed'
        /\ \E b \in Backends : b = HandlerOf(LastDbType') /\ Unavailable(b) ) =>
        /\ ~last'.run.raised
        /\ last'.run.opened = 0
        /\ openConns' = openConns
        /\ IF /\ Truthy(LastKey') /\ redis_client
              /\ ~last'.run.lookupFailed
              /\ LastKey'.s \in DOMAIN cache
              /\ TruthyData(JsonLoads(cache[LastKey'.s]))
           THEN /\ last'.run.resp.status = "success"
                /\ last'.run.resp.from_cache = TRUE
                /\ last'.run.resp.data = JsonLoads(cache[LastKey'.s])
           ELSE /\ last'.run.resp.status = "error"
                /\ last'.run.resp.error.text \in UnavailableTexts ]_vars

\* the postgresql handler refused a request because the backend is
\* unavailable
C4_Witness ==
  /\ LastParsed
  /\ HandlerOf(LastDbType) = "postgresql"
  /\ Unavailable("postgresql")
  /\ last.run.invocations = 1
  /\ last.run.resp.status = "error"

\* C5: when the cache cannot be reached (no client, a failing lookup or a
\* failing store) and the handler succeeds on a read with a cache_key, the
\* response is status "success", from_cache:false, with the backend's
\* result as data.
C5_CacheFailureNotFatal ==
  ( /\ last.called
    /\ Truthy(LastKey)
    /\ (~redis_client \/ last.run.lookupFailed \/ last.run.storeFailed)
    /\ last.run.invocations = 1
    /\ last.run.fail # "handler"
    /\ last.run.class = "read" ) =>
    /\ last.run.resp.status = "success"
    /\ last.run.resp.from_cache = FALSE
    /\ last.run.resp.data = last.run.result

\* a read succeeded although both the lookup and the store failed
C5_Witness ==
  /\ last.called /\ Truthy(LastKey)
  /\ last.run.lookupFailed /\ last.run.storeFailed
  /\ last.run.class = "read"
  /\ last.run.resp.status = "success"

\* C6: a returned envelope is either a success envelope with data (never
\* None) and from_cache and without error, or an error envelope with error
\* and without data; there is no other status.
C6_ExactlyOneOfDataError ==
  last.called =>
    \/ /\ last.run.resp.status = "success"
       /\ DOMAIN last.run.resp = {"status", "data", "from_cache", "timestamp"}
       /\ last.run.resp.data.kind # "null"
       /\ last.run.resp.from_cache \in BOOLEAN
    \/ /\ last.run.resp.status = "error"
       /\ DOMAIN last.run.resp = {"status", "error", "timestamp"}

\* an error envelope was returned for a routing failure
C6_Witness ==
  /\ last.called
  /\ last.run.fail = "route"
  /\ last.run.resp.status = "error"

\* C7 (as claimed): every connection a handler opens is closed before the
\* handler returns or fails, and none stays open after a call has returned.
C7_ConnectionsReleased ==
  /\ last.called => last.run.opened = last.run.closed
  /\ \A b \in Backends : openConns[b] = 0

\* the read condition of the claim: the operation equals the backend's read
\* marker case-insensitively, or (relational only) the query starts with
\* "select" case-insensitively
ClaimedRead ==
  IF last.run.handler = "mongodb"
  THEN LastOperation.t = "str" /\ StrLower(LastOperation.s) = S_find
  ELSE \/ LastOperation.t = "str" /\ StrLower(LastOperation.s) = S_select
       \/ LastQuery.t = "str" /\ StartsWith(StrLower(LastQuery.s), S_select)

\* C8 (as claimed): a handler that runs against an available backend whose
\* driver does not fail treats the request as a read exactly when the read
\* condition holds, and every other request it accepts as a write, for
\* every operation casing and every query value, an absent query included.
C8_ReadWriteClassification ==
  ( /\ last.called
    /\ last.run.invocations = 1
    /\ last.run.opened = 1
    /\ ~last.run.driverFailed ) =>
    /\ (last.run.class = "read") <=> ClaimedRead
    /\ (~ClaimedRead /\ last.run.fail = "none") => last.run.class = "write"

\* C9: when the request has a cache_key, the client exists and the lookup
\* finds an entry, the call returns status "success", from_cache:true and
\* the cached value, runs no handler and leaves the cache alone, for any
\* kind of request; a handler runs at most once per call and never for a
\* from_cache:true response.
C9_CacheHitShortCircuit ==
  [][ CallStep =>
        /\ ( /\ Truthy(LastKey') /\ redis_client
             /\ last'.run.lookupTried /\ ~last'.run.lookupFailed
             /\ LastKey'.s \in DOMAIN cache ) =>
             /\ last'.run.resp.status = "success"
             /\ last'.run.resp.from_cache = TRUE
             /\ last'.run.resp.data = JsonLoads(cache[LastKey'.s])
             /\ last'.run.invocations = 0
             /\ ~last'.run.storeTried
             /\ cache' = cache
        /\ last'.run.invocations <= 1
        /\ last'.run.invocations = 1 =>
             ~(last'.run.resp.status = "success" /\ last'.run.resp.from_cache)
    ]_vars

\* a request whose operation is a write was answered from the cache
C9_Witness ==
  /\ last.called
  /\ LastOperation = Str(S_insert) /\ LastQuery = Str(Q_insert)
  /\ last.run.resp.status = "success"
  /\ last.run.resp.from_cache = TRUE
  /\ last.run.invocations = 0

\* C10: a call without a cache_key does not look the cache up, does not
\* store, leaves every cache entry as it was, and is answered with
\* from_cache:false or an error, for reads and successful writes alike.
C10_NoKeyLeavesCacheAlone ==
  [][ (CallStep /\ ~Truthy(LastKey')) =>
        /\ ~last'.run.lookupTried
        /\ ~last'.run.storeTried
        /\ cache' = cache
        /\ \/ last'.run.resp.status = "error"
           \/ last'.run.resp.from_cache = FALSE ]_vars

\* a write without a cache_key succeeded while the cache held an entry
C10_Witness ==
  /\ last.called
  /\ ~Truthy(LastKey)
  /\ last.run.class = "write"
  /\ last.run.resp.status = "success"
  /\ DOMAIN cache # {}

====
